---- MODULE Spec2Model ----
(***************************************************************************)
(* pgindexrebuild: rebuilds bloated PostgreSQL indexes without locking.    *)
(* The module models src/pgindexrebuild.py: the string rewriting of the    *)
(* index definition, the candidate selection of indexsizes() and the       *)
(* statement sequence main() sends over an autocommit connection.          *)
(* Strings are sequences of one-character strings, so that startswith,     *)
(* replace, upper and the substring test work on characters as in Python.  *)
(***************************************************************************)
EXTENDS Integers, Sequences, FiniteSets, TLC

(* Number of invocations of the program on the same database. *)
MaxRuns == 2

(***************************************************************************)
(* Python string primitives                                                *)
(***************************************************************************)

(* str.startswith *)
StartsWith(s, p) == Len(s) >= Len(p) /\ SubSeq(s, 1, Len(p)) = p

(* str.find + 1: position of the first occurrence of p in s, 0 when none *)
Find(s, p) ==
  LET hits == {j \in 1..(Len(s) - Len(p) + 1) : SubSeq(s, j, j + Len(p) - 1) = p}
  IN IF hits = {} THEN 0 ELSE CHOOSE j \in hits : \A h \in hits : j <= h

(* p in s *)
Contains(s, p) == \E j \in 1..(Len(s) - Len(p) + 1) : SubSeq(s, j, j + Len(p) - 1) = p

(* s.replace(old, new, 1): only the first occurrence is replaced *)
Replace1(s, old, new) ==
  LET j == Find(s, old)
  IN IF j = 0 THEN s
     ELSE SubSeq(s, 1, j - 1) \o new \o SubSeq(s, j + Len(old), Len(s))

LowerLetters == <<"a","b","c","d","e","f","g","h","i","j","k","l","m",
                  "n","o","p","q","r","s","t","u","v","w","x","y","z">>
UpperLetters == <<"A","B","C","D","E","F","G","H","I","J","K","L","M",
                  "N","O","P","Q","R","S","T","U","V","W","X","Y","Z">>

UpperOf ==
  [c \in {LowerLetters[j] : j \in 1..Len(LowerLetters)} |->
     UpperLetters[CHOOSE j \in 1..Len(LowerLetters) : LowerLetters[j] = c]]

UpperChar(c) == IF c \in DOMAIN UpperOf THEN UpperOf[c] ELSE c

(* str.upper *)
Upper(s) == [j \in 1..Len(s) |-> UpperChar(s[j])]

(***************************************************************************)
(* String literals of the program                                          *)
(***************************************************************************)
S_CREATE_INDEX == <<"C","R","E","A","T","E"," ","I","N","D","E","X"," ">>
S_CREATE_UNIQUE_INDEX ==
  <<"C","R","E","A","T","E"," ","U","N","I","Q","U","E"," ","I","N","D","E","X"," ">>
S_CREATE_UNQUE_INDEX ==
  <<"C","R","E","A","T","E"," ","U","N","Q","U","E"," ","I","N","D","E","X"," ">>
S_CONCURRENTLY == <<"C","O","N","C","U","R","R","E","N","T","L","Y"," ">>
S_UNIQUE_MARKER == <<" ","U","N","I","Q","U","E"," ">>
S_OLD == <<"_","o","l","d">>
S_PUBLIC == <<"p","u","b","l","i","c">>

(***************************************************************************)
(* make_indexdef_concurrent                                                *)
(***************************************************************************)
Returned(s) == [raised |-> FALSE, value |-> s]
Raised == [raised |-> TRUE, value |-> <<>>]

(* Variant that passes an unknown definition through instead of raising. *)
make_indexdef_concurrent_noraise(indexdef) ==
  IF StartsWith(indexdef, S_CREATE_INDEX)
  THEN Returned(Replace1(indexdef, S_CREATE_INDEX, S_CREATE_INDEX \o S_CONCURRENTLY))
  ELSE Returned(indexdef)

make_indexdef_concurrent(indexdef) ==
  IF StartsWith(indexdef, S_CREATE_INDEX)
  THEN Returned(Replace1(indexdef, S_CREATE_INDEX, S_CREATE_INDEX \o S_CONCURRENTLY))
  ELSE IF StartsWith(indexdef, S_CREATE_UNIQUE_INDEX)
  THEN Returned(Replace1(indexdef, S_CREATE_UNQUE_INDEX,
                         S_CREATE_UNQUE_INDEX \o S_CONCURRENTLY))
  ELSE Raised

(***************************************************************************)
(* The database catalog (external collaborator)                            *)
(***************************************************************************)
S_OTHER == <<"o","t","h","e","r">>
S_TABLE == <<"t">>
S_BARE_TABLE == <<"u">>
T_PLAIN == <<" ","O","N"," ","t"," ","(","c",")">>
T_QUOTED == T_PLAIN \o <<" ","W","H","E","R","E"," ","k"," ","="," ","'">>
                    \o <<" ","u","n","i","q","u","e"," ","'">>

(* "{t}_old".format(t=obj['name']) *)
old_index_name(t) == t \o S_OLD

RECURSIVE OldNames(_, _)
OldNames(n, k) == IF k = 0 THEN <<n>> ELSE <<n>> \o OldNames(old_index_name(n), k - 1)

(* Every index name a run can produce: a name gains at most one _old per run. *)
NameOrder == OldNames(<<"a">>, MaxRuns) \o OldNames(<<"b">>, MaxRuns)
AllNames == {NameOrder[j] : j \in 1..Len(NameOrder)}

Absent == [exists |-> FALSE, primary |-> FALSE, unique |-> FALSE,
           tail |-> <<>>, wasted |-> 0, relsize |-> 0]

WastedValues == {0, 1, 2}
(* Statistics of a freshly built index: the estimate may still report waste *)
NewWasted == {0, 1}
NewSizes == {1}

(* An index of another schema; its relation is found by name by index_size. *)
OtherIndex == [exists |-> TRUE, primary |-> FALSE, unique |-> FALSE,
               tail |-> T_PLAIN, wasted |-> 1, relsize |-> 3]

(* pg_indexes.indexdef: the engine prints the definition under the current name *)
pg_indexdef(name, rec) ==
  (IF rec.unique THEN S_CREATE_UNIQUE_INDEX ELSE S_CREATE_INDEX) \o name \o rec.tail

(* One row of the bloat query for an index; relpages is taken as the stored size *)
EstimatorRow(schema, name, rec) ==
  [schemaname |-> schema, tablename |-> S_TABLE, iname |-> name,
   ipages |-> rec.relsize, wastedibytes |-> rec.wasted,
   indisprimary |-> rec.primary, indexdef |-> pg_indexdef(name, rec)]

(* LEFT JOIN row of a table that has no index: iname '?', indexdef NULL *)
BareTableRow ==
  [schemaname |-> S_PUBLIC, tablename |-> S_BARE_TABLE, iname |-> <<"?">>,
   ipages |-> 0, wastedibytes |-> 0, indisprimary |-> FALSE, indexdef |-> <<>>]

RECURSIVE RowsOf(_, _, _)
RowsOf(cat, oth, j) ==
  IF j > Len(NameOrder) THEN <<>>
  ELSE LET n == NameOrder[j]
       IN (IF cat[n].exists THEN <<EstimatorRow(S_PUBLIC, n, cat[n])>> ELSE <<>>)
          \o (IF n \in oth THEN <<EstimatorRow(S_OTHER, n, OtherIndex)>> ELSE <<>>)
          \o RowsOf(cat, oth, j + 1)

(* cursor.fetchall() of the bloat query. The catalog holds one index per       *)
(* schema.name, so the dict built from the rows does not depend on their order *)
EstimatorRows(cat, oth) == <<BareTableRow>> \o RowsOf(cat, oth, 1)

(***************************************************************************)
(* indexsizes                                                              *)
(***************************************************************************)
PageSize == 8192

DictKey(row) == row.schemaname \o <<".">> \o row.iname

MakeObj(row, conc) ==
  [schemaname |-> row.schemaname, iname |-> row.iname, name |-> row.iname,
   size |-> row.ipages * PageSize, table |-> row.tablename,
   primary |-> row.indisprimary, def |-> row.indexdef,
   wasted |-> row.wastedibytes, indexdef |-> conc]

(* Variant in which the first row of a key is kept *)
RECURSIVE objs_dict_first_wins(_)
objs_dict_first_wins(rs) ==
  IF rs = <<>> THEN [raised |-> FALSE, d |-> <<>>]
  ELSE LET prev == objs_dict_first_wins(SubSeq(rs, 1, Len(rs) - 1))
           row == rs[Len(rs)]
       IN IF prev.raised \/ row.indexdef = <<>> THEN prev
          ELSE LET c == make_indexdef_concurrent(row.indexdef)
               IN IF c.raised THEN [raised |-> TRUE, d |-> <<>>]
                  ELSE [raised |-> FALSE,
                        d |-> [k \in (DOMAIN prev.d) \cup {DictKey(row)} |->
                                 IF k \in DOMAIN prev.d THEN prev.d[k]
                                 ELSE MakeObj(row, c.value)]]

(* Variant that leaves out a row whose definition is not recognised *)
RECURSIVE objs_dict_skips_unknown(_)
objs_dict_skips_unknown(rs) ==
  IF rs = <<>> THEN [raised |-> FALSE, d |-> <<>>]
  ELSE LET prev == objs_dict_skips_unknown(SubSeq(rs, 1, Len(rs) - 1))
           row == rs[Len(rs)]
           c == make_indexdef_concurrent(row.indexdef)
       IN IF row.indexdef = <<>> \/ c.raised THEN prev
          ELSE [raised |-> FALSE,
                d |-> [k \in (DOMAIN prev.d) \cup {DictKey(row)} |->
                         IF k = DictKey(row) THEN MakeObj(row, c.value)
                         ELSE prev.d[k]]]

(* The loop over the rows: rows without definition are dropped, a later row *)
(* overwrites an earlier one with the same key, an unknown definition raises *)
RECURSIVE objs_dict(_)
objs_dict(rows) ==
  IF rows = <<>> THEN [raised |-> FALSE, d |-> <<>>]
  ELSE LET prev == objs_dict(SubSeq(rows, 1, Len(rows) - 1))
           row == rows[Len(rows)]
       IN IF prev.raised \/ row.indexdef = <<>> THEN prev
          ELSE LET c == make_indexdef_concurrent(row.indexdef)
               IN IF c.raised THEN [raised |-> TRUE, d |-> <<>>]
                  ELSE [raised |-> FALSE,
                        d |-> [k \in (DOMAIN prev.d) \cup {DictKey(row)} |->
                                 IF k = DictKey(row) THEN MakeObj(row, c.value)
                                 ELSE prev.d[k]]]

RECURSIVE Enumerations(_)
Enumerations(S) ==
  IF S = {} THEN {<<>>}
  ELSE UNION {{<<x>> \o t : t \in Enumerations(S \ {x})} : x \in S}

(* dict.values() of Python 2: the values in an arbitrary order *)
dict_values(d) == {[j \in 1..Len(ks) |-> d[ks[j]]] : ks \in Enumerations(DOMAIN d)}

(* Variant in which the sort leaves the list as it is *)
sort_by_wasted_noop(s) == s

(* list.sort(key=wasted): stable, ascending *)
RECURSIVE sort_by_wasted(_)
sort_by_wasted(s) ==
  IF s = <<>> THEN <<>>
  ELSE LET front == sort_by_wasted(SubSeq(s, 1, Len(s) - 1))
           x == s[Len(s)]
           n == Cardinality({j \in 1..Len(front) : front[j].wasted <= x.wasted})
       IN SubSeq(front, 1, n) \o <<x>> \o SubSeq(front, n + 1, Len(front))

(* Variant that forgets the schema test *)
IsCandidate_any_schema(o) == o.wasted > 0

IsCandidate(o) == o.schemaname = S_PUBLIC /\ o.wasted > 0

filter_objs(s) == SelectSeq(s, IsCandidate)

(* The lists indexsizes can return for these rows, or the ValueError *)
indexsizes(rows) ==
  LET r == objs_dict(rows)
  IN [raised |-> r.raised,
      lists |-> IF r.raised THEN {}
                ELSE {filter_objs(sort_by_wasted(v)) : v \in dict_values(r.d)}]

(***************************************************************************)
(* The engine's reading of a CREATE INDEX statement                        *)
(***************************************************************************)
Drop(s, n) == SubSeq(s, n + 1, Len(s))

ParseCreate(sql) ==
  LET u == StartsWith(sql, S_CREATE_UNIQUE_INDEX)
      p == StartsWith(sql, S_CREATE_INDEX)
      rest0 == IF u THEN Drop(sql, Len(S_CREATE_UNIQUE_INDEX))
               ELSE Drop(sql, Len(S_CREATE_INDEX))
      conc == StartsWith(rest0, S_CONCURRENTLY)
      rest == IF conc THEN Drop(rest0, Len(S_CONCURRENTLY)) ELSE rest0
      sp == Find(rest, <<" ">>)
  IN [ok |-> (u \/ p) /\ sp > 1, unique |-> u, concurrently |-> conc,
      name |-> SubSeq(rest, 1, sp - 1), tail |-> Drop(rest, sp - 1)]

(***************************************************************************)
(* State                                                                   *)
(***************************************************************************)
VARIABLES
  dry_run,        \* args.dry_run
  catalog,        \* indexes of schema public, by name
  catalog0,       \* the catalog as the current run found it
  others,         \* names of the indexes of the other schema
  run,            \* number of the current invocation
  pc,             \* position of main()
  objs,           \* the list returned by indexsizes
  i,              \* position of the for loop in objs
  oldsize,        \* size read before the rebuild
  total_savings,  \* running total
  stmts,          \* statements sent to the engine in this run, in order
  arg,            \* argument of a direct call of a pure function
  ret,            \* its outcome
  fetched,        \* cursor.fetchall() of a call of indexsizes on sample rows
  vals            \* objs.values() of that call

vars == <<dry_run, catalog, catalog0, others, run, pc, objs, i, oldsize, total_savings,
          stmts, arg, ret, fetched, vals>>

NotCalled == [raised |-> FALSE, value |-> <<"-">>]

InitialIndexA ==
  {[exists |-> TRUE, primary |-> p, unique |-> u, tail |-> T_PLAIN,
    wasted |-> w, relsize |-> 2] : p \in BOOLEAN, u \in BOOLEAN, w \in WastedValues}

InitialIndexB ==
  {[exists |-> TRUE, primary |-> FALSE, unique |-> FALSE, tail |-> t,
    wasted |-> w, relsize |-> 2] : t \in {T_PLAIN, T_QUOTED}, w \in {1, 2}}

Init ==
  /\ dry_run \in BOOLEAN
  /\ \E ra \in InitialIndexA, rb \in InitialIndexB :
       catalog = [n \in AllNames |->
                    IF n = <<"a">> THEN ra ELSE IF n = <<"b">> THEN rb ELSE Absent]
  /\ catalog0 = catalog
  /\ others \in {{}, {old_index_name(<<"a">>)}}
  /\ run = 1
  /\ pc = "start"
  /\ objs = <<>>
  /\ i = 1
  /\ oldsize = 0
  /\ total_savings = 0
  /\ stmts = <<>>
  /\ arg = <<>>
  /\ ret = NotCalled
  /\ fetched = <<>>
  /\ vals = <<>>

(***************************************************************************)
(* The two point queries                                                   *)
(***************************************************************************)
(* index_size: pg_class is searched by relname alone; fetchone() takes one *)
(* of the relations of that name                                           *)
index_size(cat, oth, iname) ==
  {cat[n].relsize * PageSize : n \in {m \in AllNames : m = iname /\ cat[m].exists}}
  \cup {OtherIndex.relsize * PageSize : n \in {m \in oth : m = iname}}

(* Variant for a cursor whose rows never compare equal to [1] *)
does_index_exist_never(cat, iname) == FALSE

(* does_index_exist: pg_indexes searched by name within schema public *)
does_index_exist(cat, iname) == iname \in AllNames /\ cat[iname].exists

(***************************************************************************)
(* main                                                                    *)
(***************************************************************************)
Stmt(op, name, sql, ok) ==
  [cand |-> i, op |-> op, name |-> name, sql |-> sql, ok |-> ok, found |-> FALSE,
   size |-> 0]

Cur == objs[i]

(* Variant without the test for unique indexes *)
IsSkipped_wasted_only(obj) == obj.wasted = 0

(* Variant that looks for the marker without upper-casing the statement *)
IsSkipped_case_sensitive(obj) ==
  obj.wasted = 0 \/ Contains(obj.indexdef, S_UNIQUE_MARKER)

(* line 177 and line 180: the two tests that skip a candidate *)
IsSkipped(obj) ==
  obj.wasted = 0 \/ Contains(Upper(obj.indexdef), S_UNIQUE_MARKER)

Pure == <<catalog0, arg, ret, fetched, vals>>

(* objs = indexsizes(cursor) *)
Indexsizes ==
  /\ pc = "start"
  /\ LET r == indexsizes(EstimatorRows(catalog, others))
     IN IF r.raised
        THEN pc' = "error" /\ objs' = objs
        ELSE pc' = "for" /\ objs' \in r.lists
  /\ UNCHANGED <<dry_run, catalog, others, run, i, oldsize, total_savings, stmts, Pure>>

(* Variant that leaves the loop at a skipped candidate *)
Skip_breaks ==
  /\ pc = "for"
  /\ i <= Len(objs)
  /\ IsSkipped(Cur)
  /\ pc' = "done"
  /\ UNCHANGED <<dry_run, catalog, others, run, objs, i, oldsize, total_savings,
                 stmts, Pure>>

(* continue at line 179 or line 185 *)
Skip ==
  /\ pc = "for"
  /\ i <= Len(objs)
  /\ IsSkipped(Cur)
  /\ i' = i + 1
  /\ UNCHANGED <<dry_run, catalog, others, run, pc, objs, oldsize, total_savings,
                 stmts, Pure>>

(* oldsize = index_size(cursor, obj['name']) *)
SizeBefore ==
  /\ pc = "for"
  /\ i <= Len(objs)
  /\ ~IsSkipped(Cur)
  /\ \E sz \in index_size(catalog, others, Cur.name) :
       /\ oldsize' = sz
       /\ stmts' = Append(stmts, [Stmt("SIZE", Cur.name, <<>>, TRUE) EXCEPT !.size = sz])
  /\ pc' = "sized"
  /\ UNCHANGED <<dry_run, catalog, others, run, objs, i, total_savings, Pure>>

(* Variant without the dry-run test *)
DryRun_rebuilds ==
  /\ pc = "sized"
  /\ dry_run
  /\ pc' = "rename"
  /\ UNCHANGED <<dry_run, catalog, others, run, objs, i, oldsize, total_savings,
                 stmts, Pure>>

(* if not args.dry_run: false, the loop goes on *)
DryRun ==
  /\ pc = "sized"
  /\ dry_run
  /\ pc' = "for"
  /\ i' = i + 1
  /\ UNCHANGED <<dry_run, catalog, others, run, objs, oldsize, total_savings,
                 stmts, Pure>>

(* if does_index_exist(cursor, old_index_name): ... continue *)
CheckOld ==
  /\ pc = "sized"
  /\ ~dry_run
  /\ stmts' = Append(stmts,
                [Stmt("EXISTS", old_index_name(Cur.name), <<>>, TRUE) EXCEPT
                   !.found = does_index_exist(catalog, old_index_name(Cur.name))])
  /\ IF does_index_exist(catalog, old_index_name(Cur.name))
     THEN pc' = "for" /\ i' = i + 1
     ELSE pc' = "rename" /\ i' = i
  /\ UNCHANGED <<dry_run, catalog, others, run, objs, oldsize, total_savings, Pure>>

(* Variant that drops the renamed index before the new one is created *)
Rename_then_drop ==
  /\ pc = "rename"
  /\ catalog[Cur.name].exists
  /\ old_index_name(Cur.name) \in AllNames
  /\ ~catalog[old_index_name(Cur.name)].exists
  /\ catalog' = [catalog EXCEPT ![old_index_name(Cur.name)] = catalog[Cur.name],
                                ![Cur.name] = Absent]
  /\ stmts' = Append(stmts, Stmt("RENAME", Cur.name, <<>>, TRUE))
  /\ pc' = "drop"
  /\ UNCHANGED <<dry_run, others, run, objs, i, oldsize, total_savings, Pure>>

(* ALTER INDEX {t} RENAME TO {old}; *)
Rename ==
  /\ pc = "rename"
  /\ catalog[Cur.name].exists
  /\ old_index_name(Cur.name) \in AllNames
  /\ ~catalog[old_index_name(Cur.name)].exists
  /\ catalog' = [catalog EXCEPT ![old_index_name(Cur.name)] = catalog[Cur.name],
                                ![Cur.name] = Absent]
  /\ stmts' = Append(stmts, Stmt("RENAME", Cur.name, <<>>, TRUE))
  /\ pc' = "create"
  /\ UNCHANGED <<dry_run, others, run, objs, i, oldsize, total_savings, Pure>>

(* Variant that executes obj['def'], the blocking statement *)
Create_blocking ==
  /\ pc = "create"
  /\ LET c == ParseCreate(Cur.def)
     IN /\ c.ok
        /\ c.name \in AllNames
        /\ ~catalog[c.name].exists
        /\ \E w \in NewWasted, sz \in NewSizes :
             catalog' = [catalog EXCEPT ![c.name] =
                           [exists |-> TRUE, primary |-> FALSE, unique |-> c.unique,
                            tail |-> c.tail, wasted |-> w, relsize |-> sz]]
  /\ stmts' = Append(stmts, Stmt("CREATE", Cur.name, Cur.def, TRUE))
  /\ pc' = "analyse"
  /\ UNCHANGED <<dry_run, others, run, objs, i, oldsize, total_savings, Pure>>

(* cursor.execute(obj['indexdef']) *)
Create ==
  /\ pc = "create"
  /\ LET c == ParseCreate(Cur.indexdef)
     IN /\ c.ok
        /\ c.name \in AllNames
        /\ ~catalog[c.name].exists
        /\ \E w \in NewWasted, sz \in NewSizes :
             catalog' = [catalog EXCEPT ![c.name] =
                           [exists |-> TRUE, primary |-> FALSE, unique |-> c.unique,
                            tail |-> c.tail, wasted |-> w, relsize |-> sz]]
  /\ stmts' = Append(stmts, Stmt("CREATE", Cur.name, Cur.indexdef, TRUE))
  /\ pc' = "analyse"
  /\ UNCHANGED <<dry_run, others, run, objs, i, oldsize, total_savings, Pure>>

(* Variant that never re-attaches the primary key *)
Analyse_never_swaps ==
  /\ pc = "analyse"
  /\ stmts' = Append(stmts, Stmt("ANALYSE", Cur.name, <<>>, TRUE))
  /\ pc' = "drop"
  /\ UNCHANGED <<dry_run, catalog, others, run, objs, i, oldsize, total_savings, Pure>>

(* ANALYSE {t}; then the test of obj['primary'] *)
Analyse ==
  /\ pc = "analyse"
  /\ stmts' = Append(stmts, Stmt("ANALYSE", Cur.name, <<>>, TRUE))
  /\ pc' = IF Cur.primary THEN "swap" ELSE "drop"
  /\ UNCHANGED <<dry_run, catalog, others, run, objs, i, oldsize, total_savings, Pure>>

(* ALTER TABLE {table} DROP CONSTRAINT {t}_old, ADD CONSTRAINT {t} PRIMARY KEY *)
(* USING INDEX {t}; the engine decides whether the index of the dropped        *)
(* constraint goes with it                                                     *)
Swap ==
  /\ pc = "swap"
  /\ catalog[Cur.name].exists
  /\ catalog[old_index_name(Cur.name)].exists
  /\ catalog[old_index_name(Cur.name)].primary
  /\ \E keeps \in BOOLEAN :
       catalog' = [catalog EXCEPT
                     ![Cur.name].primary = TRUE,
                     ![old_index_name(Cur.name)] =
                        IF keeps THEN [@ EXCEPT !.primary = FALSE] ELSE Absent]
  /\ stmts' = Append(stmts, Stmt("SWAP", Cur.name, <<>>, TRUE))
  /\ pc' = "drop"
  /\ UNCHANGED <<dry_run, others, run, objs, i, oldsize, total_savings, Pure>>

(* DROP INDEX {old}; *)
DropOld ==
  /\ pc = "drop"
  /\ catalog[old_index_name(Cur.name)].exists
  /\ catalog' = [catalog EXCEPT ![old_index_name(Cur.name)] = Absent]
  /\ stmts' = Append(stmts, Stmt("DROP", old_index_name(Cur.name), <<>>, TRUE))
  /\ pc' = "after"
  /\ UNCHANGED <<dry_run, others, run, objs, i, oldsize, total_savings, Pure>>

(* Variant that adds the new size instead of the difference *)
SizeAfter_adds_newsize ==
  /\ pc = "after"
  /\ \E sz \in index_size(catalog, others, Cur.name) :
       /\ total_savings' = total_savings + sz
       /\ stmts' = Append(stmts, [Stmt("SIZE", Cur.name, <<>>, TRUE) EXCEPT !.size = sz])
  /\ pc' = "for"
  /\ i' = i + 1
  /\ UNCHANGED <<dry_run, catalog, others, run, objs, oldsize, Pure>>

(* newsize = index_size(...); total_savings += newsize - oldsize *)
SizeAfter ==
  /\ pc = "after"
  /\ \E sz \in index_size(catalog, others, Cur.name) :
       /\ total_savings' = total_savings + (sz - oldsize)
       /\ stmts' = Append(stmts, [Stmt("SIZE", Cur.name, <<>>, TRUE) EXCEPT !.size = sz])
  /\ pc' = "for"
  /\ i' = i + 1
  /\ UNCHANGED <<dry_run, catalog, others, run, objs, oldsize, Pure>>

(* break, and the final log line *)
Finish ==
  /\ pc = "for"
  /\ i > Len(objs)
  /\ pc' = "done"
  /\ UNCHANGED <<dry_run, catalog, others, run, objs, i, oldsize, total_savings,
                 stmts, Pure>>

(* The statement main() sends next from its position *)
NextOp ==
  CASE pc = "for" -> "SIZE"
    [] pc = "sized" -> "EXISTS"
    [] pc = "rename" -> "RENAME"
    [] pc = "create" -> "CREATE"
    [] pc = "analyse" -> "ANALYSE"
    [] pc = "swap" -> "SWAP"
    [] pc = "drop" -> "DROP"
    [] pc = "after" -> "SIZE"

NextName ==
  IF pc \in {"sized", "drop"} THEN old_index_name(Cur.name) ELSE Cur.name

SendsStatement ==
  \/ pc = "for" /\ i <= Len(objs) /\ ~IsSkipped(Cur)
  \/ pc = "sized" /\ ~dry_run
  \/ pc \in {"rename", "create", "analyse", "swap", "drop", "after"}

(* Variant that catches the exception and goes on with the next candidate *)
StmtFail_continues ==
  /\ SendsStatement
  /\ stmts' = Append(stmts, Stmt(NextOp, NextName,
                                 IF pc = "create" THEN Cur.indexdef ELSE <<>>, FALSE))
  /\ pc' = "for"
  /\ i' = i + 1
  /\ UNCHANGED <<dry_run, catalog, others, run, objs, oldsize, total_savings, Pure>>

(* cursor.execute raises: the exception leaves main(), nothing is undone *)
StmtFail ==
  /\ SendsStatement
  /\ stmts' = Append(stmts, Stmt(NextOp, NextName,
                                 IF pc = "create" THEN Cur.indexdef ELSE <<>>, FALSE))
  /\ pc' = "halted"
  /\ UNCHANGED <<dry_run, catalog, others, run, objs, i, oldsize, total_savings, Pure>>

(* The process is stopped between two statements *)
Interrupt ==
  /\ pc \in {"for", "sized", "rename", "create", "analyse", "swap", "drop", "after"}
  /\ pc' = "halted"
  /\ UNCHANGED <<dry_run, catalog, others, run, objs, i, oldsize, total_savings,
                 stmts, Pure>>

(* The tool is started again on the database a halted run left behind. A run *)
(* that renamed nothing leaves the catalog it found, which Init describes.   *)
NextRun ==
  /\ pc = "halted"
  /\ \E j \in 1..Len(stmts) : stmts[j].op = "RENAME" /\ stmts[j].ok
  /\ run < MaxRuns
  /\ run' = run + 1
  /\ dry_run' \in BOOLEAN
  /\ pc' = "start"
  /\ objs' = <<>>
  /\ i' = 1
  /\ oldsize' = 0
  /\ total_savings' = 0
  /\ stmts' = <<>>
  /\ catalog0' = catalog
  /\ UNCHANGED <<catalog, others, arg, ret, fetched, vals>>

Next ==
  \/ Indexsizes
  \/ Skip
  \/ SizeBefore
  \/ DryRun
  \/ CheckOld
  \/ Rename
  \/ Create
  \/ Analyse
  \/ Swap
  \/ DropOld
  \/ SizeAfter
  \/ Finish
  \/ StmtFail
  \/ Interrupt
  \/ NextRun

Spec == Init /\ [][Next]_vars

(***************************************************************************)
(* make_indexdef_concurrent called directly on sample definitions          *)
(***************************************************************************)
S_ALTER_INDEX == <<"A","L","T","E","R"," ","I","N","D","E","X"," ">>
T_WHERE == <<" ","W","H","E","R","E"," ","d"," ","="," ","'">>

SamplePrefixes ==
  {S_CREATE_INDEX, S_CREATE_UNIQUE_INDEX, S_CREATE_UNQUE_INDEX, S_ALTER_INDEX, <<>>,
   SubSeq(S_CREATE_INDEX, 1, Len(S_CREATE_INDEX) - 1),
   SubSeq(S_CREATE_UNIQUE_INDEX, 1, Len(S_CREATE_UNIQUE_INDEX) - 1),
   <<" ">> \o S_CREATE_INDEX,
   <<"c","r","e","a","t","e"," ","i","n","d","e","x"," ">>}

SampleTails ==
  {T_PLAIN, T_QUOTED,
   T_PLAIN \o T_WHERE \o S_CREATE_INDEX \o <<"'">>,
   T_PLAIN \o T_WHERE \o S_CREATE_UNQUE_INDEX \o <<"'">>}

SampleDefs ==
  {p \o n \o t : p \in SamplePrefixes,
                 n \in {<<"a">>, <<"b">>, old_index_name(<<"a">>)},
                 t \in SampleTails}

InitDef ==
  /\ arg \in SampleDefs
  /\ ret = NotCalled
  /\ pc = "call"
  /\ dry_run = TRUE
  /\ catalog = [n \in AllNames |-> Absent]
  /\ catalog0 = catalog
  /\ others = {}
  /\ run = 1
  /\ objs = <<>>
  /\ i = 1
  /\ oldsize = 0
  /\ total_savings = 0
  /\ stmts = <<>>
  /\ fetched = <<>>
  /\ vals = <<>>

CallMakeConcurrent ==
  /\ pc = "call"
  /\ ret' = make_indexdef_concurrent(arg)
  /\ pc' = "returned"
  /\ UNCHANGED <<dry_run, catalog, catalog0, others, run, objs, i, oldsize,
                 total_savings, stmts, arg, fetched, vals>>

NextDef == CallMakeConcurrent

SpecDef == InitDef /\ [][NextDef]_vars

(***************************************************************************)
(* indexsizes called on sample result sets, followed by a dry run of main  *)
(***************************************************************************)
MaxRows == 3

Row(schema, table, name, pages, wasted, primary, def) ==
  [schemaname |-> schema, tablename |-> table, iname |-> name, ipages |-> pages,
   wastedibytes |-> wasted, indisprimary |-> primary, indexdef |-> def]

N_A == <<"a">>
N_B == <<"b">>

(* Rows that share a key and differ in every other field, rows the filter   *)
(* discards, a row without definition, and rows whose definition is unknown *)
SampleRows ==
  {Row(S_PUBLIC, S_TABLE, N_A, 2, 1, FALSE, S_CREATE_INDEX \o N_A \o T_PLAIN),
   Row(S_PUBLIC, S_BARE_TABLE, N_A, 3, 2, TRUE, S_CREATE_INDEX \o N_A \o T_QUOTED),
   Row(S_PUBLIC, S_TABLE, N_A, 2, 0, FALSE, S_CREATE_INDEX \o N_A \o T_PLAIN),
   Row(S_PUBLIC, S_TABLE, N_A, 3, 2, FALSE, <<>>),
   Row(S_PUBLIC, S_TABLE, N_B, 2, 1, FALSE, S_CREATE_INDEX \o N_B \o T_PLAIN),
   Row(S_PUBLIC, S_TABLE, N_B, 2, 2, FALSE, S_CREATE_INDEX \o N_B \o T_PLAIN),
   Row(S_OTHER, S_TABLE, N_A, 3, 1, FALSE, S_CREATE_INDEX \o N_A \o T_PLAIN),
   Row(S_PUBLIC, S_TABLE, old_index_name(N_A), 2, 1, FALSE,
       S_CREATE_UNIQUE_INDEX \o old_index_name(N_A) \o T_PLAIN),
   Row(S_PUBLIC, S_TABLE, N_B, 2, 1, FALSE, S_ALTER_INDEX \o N_B \o T_PLAIN),
   Row(S_OTHER, S_TABLE, N_B, 2, 0, FALSE, S_ALTER_INDEX \o N_B \o T_PLAIN)}

RECURSIVE SeqsUpTo(_, _)
SeqsUpTo(S, n) ==
  IF n = 0 THEN {<<>>}
  ELSE LET shorter == SeqsUpTo(S, n - 1)
       IN shorter \cup {Append(s, x) : s \in shorter, x \in S}

InitSizes ==
  /\ fetched \in SeqsUpTo(SampleRows, MaxRows)
  /\ vals = <<>>
  /\ dry_run = TRUE
  /\ catalog = [n \in AllNames |->
                  IF n \in {N_A, N_B, old_index_name(N_A)}
                  THEN [exists |-> TRUE, primary |-> FALSE, unique |-> FALSE,
                        tail |-> T_PLAIN, wasted |-> 1, relsize |-> 2]
                  ELSE Absent]
  /\ catalog0 = catalog
  /\ others = {}
  /\ run = 1
  /\ pc = "start"
  /\ objs = <<>>
  /\ i = 1
  /\ oldsize = 0
  /\ total_savings = 0
  /\ stmts = <<>>
  /\ arg = <<>>
  /\ ret = NotCalled

(* objs = indexsizes(cursor), with the order of objs.values() kept in vals *)
IndexsizesOnRows ==
  /\ pc = "start"
  /\ LET r == objs_dict(fetched)
     IN IF r.raised
        THEN pc' = "error" /\ objs' = objs /\ vals' = vals
        ELSE /\ pc' = "for"
             /\ vals' \in dict_values(r.d)
             /\ objs' = filter_objs(sort_by_wasted(vals'))
  /\ UNCHANGED <<dry_run, catalog, catalog0, others, run, i, oldsize, total_savings,
                 stmts, arg, ret, fetched>>

NextSizes ==
  \/ IndexsizesOnRows
  \/ Skip
  \/ SizeBefore
  \/ DryRun
  \/ Finish

SpecSizes == InitSizes /\ [][NextSizes]_vars

(***************************************************************************)
(* size_pretty                                                             *)
(***************************************************************************)
KiB == 1024
MiB == KiB * KiB
GiB == KiB * KiB * KiB

DigitChars == <<"0","1","2","3","4","5","6","7","8","9">>

RECURSIVE ToDigits(_)
ToDigits(n) ==
  IF n < 10 THEN <<DigitChars[n + 1]>>
  ELSE ToDigits(n \div 10) \o <<DigitChars[(n % 10) + 1]>>

Abs(v) == IF v < 0 THEN 0 - v ELSE v

SignOf(v) == IF v < 0 THEN <<"-">> ELSE <<>>

(* "{}".format(b): an int or a Decimal prints its digits, a float with an *)
(* integral value prints them followed by ".0"                            *)
format_plain(b) ==
  SignOf(b.val) \o ToDigits(Abs(b.val))
    \o (IF b.kind = "float" THEN <<".", "0">> ELSE <<>>)

(* "{:.1f}".format(b / unit) under true division, unit a power of 1024: the *)
(* quotient is exact, the tenth is rounded to nearest, a tie to the even    *)
(* digit. The remainder is split so that no product leaves 32 bits.         *)
format_1f(b, unit) ==
  LET a == Abs(b.val)
      part == unit \div KiB
      whole == a \div unit
      rem == a % unit
      hi == rem \div part
      lo == rem % part
      h == 10 * hi + ((10 * lo) \div part)
      fr == (10 * lo) % part
      t == h \div KiB
      x == h % KiB
      up == \/ 2 * x > KiB
            \/ 2 * x = KiB /\ fr > 0
            \/ 2 * x = KiB /\ fr = 0 /\ t % 2 = 1
      tenths == 10 * whole + t + (IF up THEN 1 ELSE 0)
  IN SignOf(b.val) \o ToDigits(tenths \div 10) \o <<".">> \o ToDigits(tenths % 10)

(* Variant that compares the value itself, not its magnitude *)
size_pretty_signed(b) ==
  IF b.val >= GiB THEN format_1f(b, GiB) \o <<"G","i","B">>
  ELSE IF b.val >= MiB THEN format_1f(b, MiB) \o <<"M","i","B">>
  ELSE IF b.val >= KiB THEN format_1f(b, KiB) \o <<"K","i","B">>
  ELSE format_plain(b) \o <<"B">>

size_pretty(b) ==
  IF Abs(b.val) >= GiB THEN format_1f(b, GiB) \o <<"G","i","B">>
  ELSE IF Abs(b.val) >= MiB THEN format_1f(b, MiB) \o <<"M","i","B">>
  ELSE IF Abs(b.val) >= KiB THEN format_1f(b, KiB) \o <<"K","i","B">>
  ELSE format_plain(b) \o <<"B">>

(* Magnitudes around every threshold, with ties and carries of the rounding *)
SampleMagnitudes ==
  {0, 1, 512, 1023, 1024, 1025, 1075, 1076, 1280, 1536, 1792, 8192, 16384,
   MiB - 1, MiB, MiB + MiB \div 2, 5 * MiB, GiB - 1, GiB, GiB + GiB \div 2,
   GiB + (GiB - 1)}

(* main passes sizes and deltas as int, the totals of line 170 as Decimal *)
(* and total_savings as float                                             *)
SampleSizes ==
  {[val |-> s * m, kind |-> k] :
     s \in {1, 0 - 1}, m \in SampleMagnitudes, k \in {"int", "float", "decimal"}}

InitPretty ==
  /\ arg \in SampleSizes
  /\ ret = NotCalled
  /\ pc = "call"
  /\ dry_run = TRUE
  /\ catalog = [n \in AllNames |-> Absent]
  /\ catalog0 = catalog
  /\ others = {}
  /\ run = 1
  /\ objs = <<>>
  /\ i = 1
  /\ oldsize = 0
  /\ total_savings = 0
  /\ stmts = <<>>
  /\ fetched = <<>>
  /\ vals = <<>>

CallSizePretty ==
  /\ pc = "call"
  /\ ret' = Returned(size_pretty(arg))
  /\ pc' = "returned"
  /\ UNCHANGED <<dry_run, catalog, catalog0, others, run, objs, i, oldsize,
                 total_savings, stmts, arg, fetched, vals>>

NextPretty == CallSizePretty

SpecPretty == InitPretty /\ [][NextPretty]_vars

(***************************************************************************)
(* Properties of make_indexdef_concurrent (checked under SpecDef)          *)
(***************************************************************************)
KnownForm(d) == StartsWith(d, S_CREATE_INDEX) \/ StartsWith(d, S_CREATE_UNIQUE_INDEX)

(* The definition with CONCURRENTLY put right after its index-kind keyword *)
WithModifier(d) ==
  IF StartsWith(d, S_CREATE_UNIQUE_INDEX)
  THEN S_CREATE_UNIQUE_INDEX \o S_CONCURRENTLY \o Drop(d, Len(S_CREATE_UNIQUE_INDEX))
  ELSE S_CREATE_INDEX \o S_CONCURRENTLY \o Drop(d, Len(S_CREATE_INDEX))

(* C6: for every definition that starts with "CREATE INDEX " or with        *)
(* "CREATE UNIQUE INDEX " the function returns the definition with          *)
(* "CONCURRENTLY " inserted once, right after the index-kind keyword, and   *)
(* everything else unchanged.                                               *)
C6_ModifierInserted ==
  (pc = "returned" /\ KnownForm(arg)) => ret = Returned(WithModifier(arg))

(* C7: for every definition that starts with neither form the function      *)
(* raises and returns no statement.                                         *)
C7_UnknownRaises ==
  (pc = "returned" /\ ~KnownForm(arg)) => ret = Raised

(* A definition in lower case has been refused. *)
C7_Witness ==
  /\ pc = "returned"
  /\ StartsWith(arg, <<"c","r","e","a","t","e"," ","i","n","d","e","x"," ">>)
  /\ ret = Raised

(***************************************************************************)
(* Properties of a run (checked under Spec)                                *)
(***************************************************************************)
StmtsOf(c) == SelectSeq(stmts, LAMBDA s : s.cand = c)

E(op, name, sql) == [op |-> op, name |-> name, sql |-> sql]

Proj(s) == [j \in 1..Len(s) |-> E(s[j].op, s[j].name, s[j].sql)]

IsPrefix(p, s) == Len(p) <= Len(s) /\ SubSeq(s, 1, Len(p)) = p

Marker(d) == Contains(Upper(d), S_UNIQUE_MARKER)

DDL == {"RENAME", "CREATE", "ANALYSE", "SWAP", "DROP"}

(* The existence check of this candidate found the _old index *)
ResumeFound(s) == Len(s) >= 2 /\ s[2].op = "EXISTS" /\ s[2].found

(* The candidate takes the rebuild path: neither test of the loop skips it *)
Eligible(o) == o.wasted > 0 /\ ~Marker(o.def)

PlainSequence(o) ==
  <<E("SIZE", o.name, <<>>), E("EXISTS", old_index_name(o.name), <<>>),
    E("RENAME", o.name, <<>>), E("CREATE", o.name, WithModifier(o.def)),
    E("ANALYSE", o.name, <<>>), E("DROP", old_index_name(o.name), <<>>),
    E("SIZE", o.name, <<>>)>>

PrimarySequence(o) ==
  <<E("SIZE", o.name, <<>>), E("EXISTS", old_index_name(o.name), <<>>),
    E("RENAME", o.name, <<>>), E("CREATE", o.name, WithModifier(o.def)),
    E("ANALYSE", o.name, <<>>), E("SWAP", o.name, <<>>),
    E("DROP", old_index_name(o.name), <<>>), E("SIZE", o.name, <<>>)>>

(* C1: in live mode the statements sent for a non-primary candidate are, in  *)
(* this order, size lookup, existence check, rename to N_old, the concurrent *)
(* creation of N, ANALYSE N, DROP INDEX N_old, size lookup, and nothing      *)
(* else; a candidate that was neither skipped nor found interrupted and that *)
(* the loop has left got all of them.                                        *)
C1_PlainRebuildSequence ==
  \A c \in 1..Len(objs) :
    (~dry_run /\ ~objs[c].primary) =>
      LET s == StmtsOf(c)
      IN /\ IsPrefix(Proj(s), PlainSequence(objs[c]))
         /\ \A j \in 1..(Len(s) - 1) : s[j].ok
         /\ (c < i /\ Eligible(objs[c]) /\ ~ResumeFound(s)) =>
              (Proj(s) = PlainSequence(objs[c]) /\ \A j \in 1..Len(s) : s[j].ok)

C1_Witness ==
  \E c \in 1..Len(objs) :
    /\ ~dry_run /\ ~objs[c].primary /\ c < i
    /\ Proj(StmtsOf(c)) = PlainSequence(objs[c])

(* C2: in live mode, when N_old exists as the executor reaches the check for *)
(* candidate N, the only statements for N are the size lookup and the check, *)
(* the catalog and the running total stay as they are and the loop moves on. *)
C2_Inv ==
  \A c \in 1..Len(objs) : ResumeFound(StmtsOf(c)) => Len(StmtsOf(c)) = 2

C2_Step ==
  (/\ pc = "sized" /\ ~dry_run /\ stmts' # stmts
   /\ catalog[old_index_name(Cur.name)].exists)
  => /\ stmts' = Append(stmts, stmts'[Len(stmts')])
     /\ stmts'[Len(stmts')].op = "EXISTS"
     /\ stmts'[Len(stmts')].ok => stmts'[Len(stmts')].found
     /\ catalog' = catalog
     /\ total_savings' = total_savings
     /\ \/ pc' = "halted" /\ ~stmts'[Len(stmts')].ok
        \/ pc' = "for" /\ i' = i + 1

C2_ResumeSkip == [] C2_Inv /\ [][C2_Step]_vars

C2_Witness ==
  \E c \in 1..Len(objs) :
    /\ c < i /\ ~dry_run
    /\ ResumeFound(StmtsOf(c))
    /\ catalog[old_index_name(objs[c].name)].exists

(* C3: a dry run sends no DDL: only size lookups; the catalog is the one the *)
(* run found and the running total is 0.                                     *)
C3_DryRunFrame ==
  dry_run =>
    /\ \A j \in 1..Len(stmts) : stmts[j].op = "SIZE"
    /\ catalog = catalog0
    /\ total_savings = 0

C3_Witness ==
  dry_run /\ pc = "done" /\ Len(objs) = 2 /\ Len(stmts) = 2

(* C4: no row with wasted bytes <= 0 or a schema other than public is in     *)
(* the list indexsizes returned, and every statement is sent for a candidate *)
(* of that list, on its name or its _old name.                               *)
FromRow(o, row) ==
  /\ o.schemaname = row.schemaname
  /\ o.iname = row.iname
  /\ o.wasted = row.wastedibytes
  /\ o.def = row.indexdef
  /\ o.primary = row.indisprimary

C4_FilteredRowsNeverRun ==
  LET rows == EstimatorRows(catalog0, others)
  IN /\ \A k \in 1..Len(rows) :
          (rows[k].wastedibytes <= 0 \/ rows[k].schemaname # S_PUBLIC) =>
            \A j \in 1..Len(objs) : ~FromRow(objs[j], rows[k])
     /\ \A j \in 1..Len(stmts) :
          /\ stmts[j].cand \in 1..Len(objs)
          /\ stmts[j].name \in {objs[stmts[j].cand].name,
                                old_index_name(objs[stmts[j].cand].name)}
          /\ objs[stmts[j].cand].schemaname = S_PUBLIC
          /\ objs[stmts[j].cand].wasted > 0

C4_Witness ==
  LET rows == EstimatorRows(catalog0, others)
  IN /\ pc = "done"
     /\ Len(stmts) > 0
     /\ \E k \in 1..Len(rows) :
          rows[k].schemaname # S_PUBLIC /\ rows[k].wastedibytes > 0
     /\ \E k \in 1..Len(rows) :
          /\ rows[k].schemaname = S_PUBLIC
          /\ rows[k].indexdef # <<>>
          /\ rows[k].wastedibytes <= 0

(* C5: a candidate whose creation DDL holds the uniqueness marker gets no    *)
(* statement at all, in either mode, and the loop steps to the next one.     *)
C5_Inv ==
  \A c \in 1..Len(objs) : Marker(objs[c].def) => StmtsOf(c) = <<>>

C5_Step ==
  (pc = "for" /\ i <= Len(objs) /\ Marker(Cur.def)) =>
    /\ stmts' = stmts
    /\ catalog' = catalog
    /\ \/ pc' = "for" /\ i' = i + 1
       \/ pc' = "halted" /\ i' = i

C5_UniqueSkipped == [] C5_Inv /\ [][C5_Step]_vars

C5_Witness ==
  \E c \in 1..Len(objs) :
    /\ Marker(objs[c].def)
    /\ objs[c].wasted > 0
    /\ c < Len(objs)
    /\ Len(StmtsOf(c + 1)) > 0

(* C8: when the earlier run stopped between the rename of N and the drop of *)
(* N_old, the next run sends no DDL that touches N or N_old.                 *)
C8_InterruptedLeftAlone ==
  run > 1 =>
    \A n \in AllNames :
      (old_index_name(n) \in AllNames /\ catalog0[old_index_name(n)].exists) =>
        \A j \in 1..Len(stmts) :
          stmts[j].op \in DDL => stmts[j].name \notin {n, old_index_name(n)}

(* C9: in live mode a primary candidate gets the one combined constraint     *)
(* statement after CREATE and ANALYSE and before DROP INDEX N_old, and a     *)
(* candidate that is not primary never gets it.                              *)
C9_ConstraintSwap ==
  \A c \in 1..Len(objs) :
    ~dry_run =>
      LET s == StmtsOf(c)
      IN IF objs[c].primary
         THEN /\ IsPrefix(Proj(s), PrimarySequence(objs[c]))
              /\ (c < i /\ Eligible(objs[c]) /\ ~ResumeFound(s)) =>
                   Proj(s) = PrimarySequence(objs[c])
              /\ \A j \in 1..Len(s) :
                   s[j].op = "DROP" => (s[j - 1].op = "SWAP" /\ s[j - 1].ok)
         ELSE \A j \in 1..Len(s) : s[j].op # "SWAP"

C9_Witness ==
  \E c \in 1..Len(objs) :
    /\ ~dry_run /\ objs[c].primary /\ c < i
    /\ Proj(StmtsOf(c)) = PrimarySequence(objs[c])
    /\ catalog[objs[c].name].primary

(* C10: a failed statement is the last one of its run: the run is halted,   *)
(* the catalog is what it was before the statement, and nothing follows in  *)
(* that run, neither for this candidate nor for a later one.                *)
C10_Inv ==
  \A j \in 1..Len(stmts) : ~stmts[j].ok => (j = Len(stmts) /\ pc = "halted")

C10_Step ==
  /\ (stmts' # stmts /\ stmts' # <<>> /\ ~stmts'[Len(stmts')].ok) =>
       (catalog' = catalog /\ pc' = "halted" /\ i' = i)
  /\ pc = "halted" =>
       (catalog' = catalog /\ stmts' = <<>> /\ run' = run + 1)

C10_FailureHalts == [] C10_Inv /\ [][C10_Step]_vars

C10_Witness ==
  /\ pc = "halted"
  /\ Len(stmts) > 0
  /\ stmts[Len(stmts)].op \in {"CREATE", "ANALYSE", "DROP"}
  /\ ~stmts[Len(stmts)].ok
  /\ catalog # catalog0
  /\ i < Len(objs)

(* C11: once the rebuild of a candidate N has renamed it, an index named N  *)
(* or N_old exists in every state of the run, halted states included, and   *)
(* N_old is dropped only after the creation of N has succeeded.             *)
C11_IndexNeverLost ==
  /\ \A c \in 1..Len(objs) :
       (\E j \in 1..Len(stmts) :
          stmts[j].cand = c /\ stmts[j].op = "RENAME" /\ stmts[j].ok)
       => \/ catalog[objs[c].name].exists
          \/ catalog[old_index_name(objs[c].name)].exists
  /\ \A j \in 1..Len(stmts) :
       (stmts[j].op = "DROP" /\ stmts[j].ok) =>
         \E k \in 1..(j - 1) :
           /\ stmts[k].cand = stmts[j].cand
           /\ stmts[k].op = "CREATE"
           /\ stmts[k].ok

(* A run halted between the rename and the creation: only N_old is there. *)
C11_Witness ==
  /\ pc = "halted"
  /\ i <= Len(objs)
  /\ Len(stmts) > 0
  /\ stmts[Len(stmts)].op = "CREATE"
  /\ ~catalog[Cur.name].exists
  /\ catalog[old_index_name(Cur.name)].exists

(* C12: every creation statement sent to the engine carries CONCURRENTLY    *)
(* right after its CREATE INDEX or CREATE UNIQUE INDEX keyword.             *)
C12_OnlyConcurrentCreate ==
  \A j \in 1..Len(stmts) :
    stmts[j].op = "CREATE" =>
      /\ KnownForm(stmts[j].sql)
      /\ ParseCreate(stmts[j].sql).concurrently
      /\ Contains(stmts[j].sql, S_CONCURRENTLY)

(* A creation was sent in a run whose list also holds a unique index. *)
C12_Witness ==
  /\ \E j \in 1..Len(stmts) : stmts[j].op = "CREATE" /\ stmts[j].ok
  /\ \E c \in 1..Len(objs) : StartsWith(objs[c].def, S_CREATE_UNIQUE_INDEX)

(***************************************************************************)
(* Properties of indexsizes (checked under SpecSizes)                      *)
(***************************************************************************)
Returned_list == pc \in {"for", "sized", "done"}

SameKey(x, y) == x.schemaname = y.schemaname /\ x.iname = y.iname

(* fetched[l] is the last row with a definition among the rows with o's key *)
IsLastRowOf(l, o) ==
  /\ fetched[l].indexdef # <<>>
  /\ SameKey(fetched[l], o)
  /\ \A k \in (l + 1)..Len(fetched) : ~(fetched[k].indexdef # <<>> /\ SameKey(fetched[k], o))

(* C13: the returned list holds at most one candidate per schema.index_name, *)
(* and each candidate carries table, size, wasted, primary and definition of *)
(* the last row of the result set that has its key and a definition.         *)
C13_LaterRowWins ==
  Returned_list =>
    /\ \A j, k \in 1..Len(objs) : SameKey(objs[j], objs[k]) => j = k
    /\ \A j \in 1..Len(objs) :
         \E l \in 1..Len(fetched) :
           /\ IsLastRowOf(l, objs[j])
           /\ objs[j].table = fetched[l].tablename
           /\ objs[j].size = fetched[l].ipages * PageSize
           /\ objs[j].wasted = fetched[l].wastedibytes
           /\ objs[j].primary = fetched[l].indisprimary
           /\ objs[j].def = fetched[l].indexdef

(* Two rows with a definition share a key and differ in every other field; *)
(* the key is in the returned list.                                         *)
C13_Witness ==
  /\ pc = "done"
  /\ \E j, k \in 1..Len(fetched) :
       /\ j < k
       /\ fetched[j].indexdef # <<>> /\ fetched[k].indexdef # <<>>
       /\ SameKey(fetched[j], fetched[k])
       /\ fetched[j].tablename # fetched[k].tablename
       /\ fetched[j].ipages # fetched[k].ipages
       /\ fetched[j].wastedibytes # fetched[k].wastedibytes
       /\ fetched[j].indisprimary # fetched[k].indisprimary
       /\ fetched[j].indexdef # fetched[k].indexdef
       /\ \E c \in 1..Len(objs) : SameKey(objs[c], fetched[k])

UnknownRow(r) == r.indexdef # <<>> /\ ~KnownForm(r.indexdef)

(* C15: when a row with a definition of neither known form is in the result *)
(* set, the run never gets past indexsizes: it ends in the error, with no   *)
(* candidate list and without a statement sent.                             *)
C15_UnknownDefinitionAborts ==
  (\E j \in 1..Len(fetched) : UnknownRow(fetched[j])) =>
    /\ pc \in {"start", "error"}
    /\ objs = <<>>
    /\ stmts = <<>>

(* The run was aborted by a row the filter would have discarded, next to a *)
(* row that is a valid candidate.                                           *)
C15_Witness ==
  /\ pc = "error"
  /\ stmts = <<>>
  /\ \A j \in 1..Len(fetched) :
       UnknownRow(fetched[j]) => fetched[j].schemaname # S_PUBLIC /\ fetched[j].wastedibytes = 0
  /\ \E j \in 1..Len(fetched) : UnknownRow(fetched[j])
  /\ \E j \in 1..Len(fetched) :
       /\ fetched[j].schemaname = S_PUBLIC
       /\ fetched[j].wastedibytes > 0
       /\ StartsWith(fetched[j].indexdef, S_CREATE_INDEX)

PassesFilter(o) == o.schemaname = S_PUBLIC /\ o.wasted > 0

PosIn(s, x) == CHOOSE j \in 1..Len(s) : s[j] = x

(* C16 as stated: the returned list is the filtered mapping order, the sort *)
(* changes nothing.                                                         *)
C16_SortInert ==
  Returned_list => objs = SelectSeq(vals, PassesFilter)

(* C16: the returned list holds the values that pass the filter, in         *)
(* ascending order of wasted bytes; values with equal wasted bytes keep the *)
(* mapping iteration order.                                                 *)
C16_SortedByWasted ==
  Returned_list =>
    /\ {objs[j] : j \in 1..Len(objs)} = {vals[j] : j \in {k \in 1..Len(vals) : PassesFilter(vals[k])}}
    /\ \A j, k \in 1..Len(objs) :
         j < k =>
           /\ objs[j] # objs[k]
           /\ objs[j].wasted <= objs[k].wasted
           /\ objs[j].wasted = objs[k].wasted => PosIn(vals, objs[j]) < PosIn(vals, objs[k])

(* The sort changed the order of the candidates that the filter keeps. *)
C16_Witness ==
  /\ pc = "done"
  /\ Len(objs) >= 2
  /\ objs # SelectSeq(vals, PassesFilter)

(***************************************************************************)
(* Properties of size_pretty (checked under SpecPretty)                    *)
(***************************************************************************)
EndsWith(s, suf) == Len(s) >= Len(suf) /\ SubSeq(s, Len(s) - Len(suf) + 1, Len(s)) = suf

WithoutSuffix(s, suf) == SubSeq(s, 1, Len(s) - Len(suf))

Unsigned(s) == IF s # <<>> /\ s[1] = "-" THEN Tail(s) ELSE s

IsDigits(s) ==
  /\ s # <<>>
  /\ \A j \in 1..Len(s) : \E n \in 1..Len(DigitChars) : s[j] = DigitChars[n]

RECURSIVE DigitsValue(_)
DigitsValue(s) ==
  IF s = <<>> THEN 0
  ELSE 10 * DigitsValue(SubSeq(s, 1, Len(s) - 1))
       + ((CHOOSE n \in 1..Len(DigitChars) : s[Len(s)] = DigitChars[n]) - 1)

(* s is the number v written as a decimal integer *)
IsInteger(s, v) ==
  /\ IsDigits(Unsigned(s))
  /\ DigitsValue(Unsigned(s)) = Abs(v)
  /\ (s[1] = "-") <=> (v < 0)

(* s has the shape [-]digits.digit *)
OneDecimal(s) ==
  LET u == Unsigned(s)
  IN /\ Len(u) >= 3
     /\ u[Len(u) - 1] = "."
     /\ IsDigits(SubSeq(u, 1, Len(u) - 2))
     /\ IsDigits(<<u[Len(u)]>>)

TenthsOf(s) ==
  LET u == Unsigned(s)
  IN 10 * DigitsValue(SubSeq(u, 1, Len(u) - 2)) + DigitsValue(<<u[Len(u)]>>)

(* tenths / 10 is within 0.05 of a / unit; both sides are divided by 1024 *)
Nearest(tenths, a, unit) ==
  LET part == unit \div KiB
      ah == a \div KiB
      al == a % KiB
      floor20 == (20 * al) \div KiB
      ceil20 == ((20 * al) + (KiB - 1)) \div KiB
  IN /\ (2 * tenths - 1) * part <= 20 * ah + floor20
     /\ 20 * ah + ceil20 <= (2 * tenths + 1) * part

(* text is v / unit with one decimal place, followed by the suffix *)
InUnit(text, v, unit, suf) ==
  /\ EndsWith(text, suf)
  /\ LET num == WithoutSuffix(text, suf)
     IN /\ OneDecimal(num)
        /\ (num[1] = "-") <=> (v < 0)
        /\ Nearest(TenthsOf(num), Abs(v), unit)

(* text is the byte count v followed by B, no decimal *)
InBytes(text, v) ==
  /\ EndsWith(text, <<"B">>)
  /\ IsInteger(WithoutSuffix(text, <<"B">>), v)

(* C14 as stated: the unit follows the value b, and every b below 1 KiB,   *)
(* negative ones included, is a plain byte count without decimal.           *)
C14_UnitByValue ==
  pc = "returned" =>
    LET v == arg.val
        text == ret.value
    IN /\ v >= GiB => InUnit(text, v, GiB, <<"G","i","B">>)
       /\ (v >= MiB /\ v < GiB) => InUnit(text, v, MiB, <<"M","i","B">>)
       /\ (v >= KiB /\ v < MiB) => InUnit(text, v, KiB, <<"K","i","B">>)
       /\ v < KiB => InBytes(text, v)

(* C14: the unit follows the magnitude |b|: GiB from 1 GiB, MiB from 1 MiB, *)
(* KiB from 1 KiB, each with one decimal place and the sign of b; below     *)
(* 1 KiB the text is the byte count followed by B, without decimal for an   *)
(* int or a Decimal and with ".0" for a float.                              *)
C14_UnitByMagnitude ==
  pc = "returned" =>
    LET v == arg.val
        a == Abs(arg.val)
        text == ret.value
    IN /\ a >= GiB => InUnit(text, v, GiB, <<"G","i","B">>)
       /\ (a >= MiB /\ a < GiB) => InUnit(text, v, MiB, <<"M","i","B">>)
       /\ (a >= KiB /\ a < MiB) => InUnit(text, v, KiB, <<"K","i","B">>)
       /\ (a < KiB /\ arg.kind # "float") => InBytes(text, v)
       /\ (a < KiB /\ arg.kind = "float") =>
            /\ EndsWith(text, <<".", "0", "B">>)
            /\ IsInteger(WithoutSuffix(text, <<".", "0", "B">>), v)

(* A negative size delta of more than 1 KiB was rendered *)
C14_Witness ==
  /\ pc = "returned"
  /\ arg.kind = "int"
  /\ arg.val <= 0 - KiB
  /\ ~InBytes(ret.value, arg.val)

(***************************************************************************)
(* Properties of the loop of main (checked under Spec)                     *)
(***************************************************************************)
(* stmts[j] is the size lookup that opens the visit of its candidate *)
OpensVisit(j) ==
  /\ stmts[j].op = "SIZE"
  /\ ~(j > 1 /\ stmts[j - 1].op = "DROP" /\ stmts[j - 1].cand = stmts[j].cand)

VisitsOf(c) == {j \in 1..Len(stmts) : stmts[j].cand = c /\ OpensVisit(j)}

C17_Inv ==
  /\ i \in 1..(Len(objs) + 1)
  /\ \A j \in 1..Len(stmts) : stmts[j].cand \in 1..Len(objs) /\ stmts[j].cand <= i
  /\ \A j, k \in 1..Len(stmts) : j < k => stmts[j].cand <= stmts[k].cand
  /\ \A c \in 1..Len(objs) : Cardinality(VisitsOf(c)) <= 1
  /\ \A c \in 1..(i - 1) :
       Cardinality(VisitsOf(c)) = (IF Eligible(objs[c]) THEN 1 ELSE 0)
  /\ pc = "done" =>
       /\ i = Len(objs) + 1
       /\ \A j \in 1..Len(stmts) : stmts[j].ok

PcOrder == <<"start", "for", "sized", "rename", "create", "analyse", "swap", "drop", "after">>

(* Progress of the run: the loop position, then the position inside the body; *)
(* a run that is over has the largest value.                                  *)
Progress ==
  IF pc \in {"done", "halted", "error"} THEN 10 * (Len(objs) + 2)
  ELSE 10 * i + (CHOOSE r \in 1..Len(PcOrder) : PcOrder[r] = pc)

C17_Step ==
  /\ pc # "done"
  /\ run' = run =>
       /\ objs' = objs \/ pc = "start"
       /\ i' = i \/ i' = i + 1
       /\ Progress' > Progress
  /\ (pc = "for" /\ i > Len(objs) /\ pc' # "halted") =>
       (pc' = "done" /\ stmts' = stmts /\ total_savings' = total_savings)

(* C17: the loop position only moves forward by one, the statements follow the *)
(* list order, every candidate before the loop position has been visited once  *)
(* (a skipped one without a statement), no candidate is visited twice, and the *)
(* run ends: once the list is exhausted the next step is the final summary,    *)
(* nothing follows it, and every step of a run raises a bounded progress count *)
(* so that no run goes on forever.                                             *)
C17_OnePass ==
  /\ [] (C17_Inv /\ Progress <= 10 * (Len(objs) + 2))
  /\ [][C17_Step]_vars

(* A live run without failure ended after a candidate skipped because its *)
(* _old index exists, followed by a candidate that was rebuilt.            *)
C17_Witness ==
  /\ pc = "done"
  /\ ~dry_run
  /\ Len(objs) >= 2
  /\ \E c \in 1..(Len(objs) - 1) :
       /\ ResumeFound(StmtsOf(c))
       /\ \E j \in 1..Len(stmts) :
            stmts[j].cand = c + 1 /\ stmts[j].op = "DROP" /\ stmts[j].ok

(* The rebuild of candidate c went through the drop and the size lookup *)
Completed(c) ==
  LET s == StmtsOf(c)
  IN /\ Len(s) >= 3
     /\ s[1].op = "SIZE"
     /\ s[Len(s) - 1].op = "DROP" /\ s[Len(s) - 1].ok
     /\ s[Len(s)].op = "SIZE" /\ s[Len(s)].ok

(* size after - size before of a completed rebuild: the first lookup comes *)
(* before the rename, the last one after the drop                          *)
DeltaOf(c) ==
  IF Completed(c) THEN StmtsOf(c)[Len(StmtsOf(c))].size - StmtsOf(c)[1].size ELSE 0

RECURSIVE SumOfDeltas(_)
SumOfDeltas(c) == IF c = 0 THEN 0 ELSE SumOfDeltas(c - 1) + DeltaOf(c)

(* C18: the running total is the sum of size after - size before over the   *)
(* candidates whose rebuild went through the drop of N_old; at the end of   *)
(* the run these are the candidates that were not skipped, so a candidate   *)
(* skipped for its uniqueness marker, for an existing N_old or by the dry   *)
(* run adds nothing.                                                        *)
C18_TotalIsSumOfDeltas ==
  /\ total_savings = SumOfDeltas(Len(objs))
  /\ \A c \in 1..Len(objs) :
       Completed(c) =>
         \E j \in 2..(Len(StmtsOf(c)) - 1) :
           /\ StmtsOf(c)[j].op = "RENAME"
           /\ \A k \in 2..(Len(StmtsOf(c)) - 1) : StmtsOf(c)[k].op # "SIZE"
  /\ pc = "done" =>
       \A c \in 1..Len(objs) :
         Completed(c) <=>
           (~dry_run /\ Eligible(objs[c]) /\ ~ResumeFound(StmtsOf(c)))

(* A live run ended with a rebuilt candidate next to a skipped one. *)
C18_Witness ==
  /\ pc = "done"
  /\ total_savings # 0
  /\ \E c \in 1..Len(objs) : Completed(c)
  /\ \E c \in 1..Len(objs) : ~Eligible(objs[c]) \/ ResumeFound(StmtsOf(c))

====
